---- MODULE Spec2Model ----
(***************************************************************************)
(* Campus BookSwap: the conversation and notification engine.              *)
(*                                                                         *)
(* State: the browser's localStorage (the keys 'currentUser',              *)
(* 'bookswap_conversations', 'bookswap_notifications'), the objects built  *)
(* on page load (MessagingSystem, BookMessaging, NotificationSystem), the  *)
(* notification DOM (badge, dropdown, toasts) and the pending timers.      *)
(* Each object lives in its own page (tab); all pages share localStorage.  *)
(***************************************************************************)
EXTENDS Integers, Sequences, FiniteSets, TLC

VARIABLES
    clock,        \* Date.now(), in milliseconds since the first page load
    currentUser,  \* localStorage 'currentUser': a user id, or NoUser when absent
    convStore,    \* localStorage 'bookswap_conversations' (absent key = <<>>)
    ms,           \* the MessagingSystem objects, one per page
    bm,           \* the BookMessaging object
    notifStore,   \* localStorage 'bookswap_notifications' (absent key = <<>>)
    ns,           \* the NotificationSystem objects of the page
    dom,          \* the page's notification DOM: badge, dropdown, its list
    toasts,       \* the toasts created on the page, with their timers
    lastReturn,   \* what the last addNotification call returned
    errors        \* uncaught errors raised so far (a set of labels)

convVars == <<convStore, ms, bm>>
notifVars == <<notifStore, ns, dom, toasts, lastReturn>>
vars == <<clock, currentUser, convStore, ms, bm,
          notifStore, ns, dom, toasts, lastReturn, errors>>

----------------------------------------------------------------------------
(* Bounds of the model *)

MaxClock == 1      \* Date.now() takes the values 0..MaxClock
MaxConvs == 2      \* no conversation is created in a list of MaxConvs
MaxMsgs == 2       \* no message is appended to a conversation of MaxMsgs
MaxNotifs == 1     \* no notification is added to a list of MaxNotifs
MaxRand == 2       \* Math.random() draws one of MaxRand id suffixes
MaxToasts == 1     \* toasts followed through their timers
MaxClicks == 2     \* clicks on one toast's close button, and on its body
MaxList == 3       \* longest notification list of the list specification
MaxBadge == 10     \* longest notification list of the badge specification
MaxClickList == 2  \* longest notification list of the click specification
MaxShared == 2     \* longest list of two objects sharing the store; one
                   \* more toast than that is followed

Users == {"u1", "u2"}          \* ids of the users who can log in
NoUser == "none"               \* null: nobody is logged in
Pages == {1, 2}                \* pages holding a MessagingSystem
Objs == {1, 2}                 \* NotificationSystem objects of the page
Inputs == {"", " ", "hi"}      \* what the user typed into a text field
NoId == <<>>                   \* activeConversationId = null

----------------------------------------------------------------------------
(* Pure helpers *)

\* The input taken as typed
trimNothing(s) == s

\* String.prototype.trim on the inputs of the model
trim(s) == IF s = " " THEN "" ELSE s

\* Array.prototype.find on ids: the index of the first conversation with
\* this id, 0 when there is none
FindById(convs, cid) ==
    LET hits == {k \in DOMAIN convs : convs[k].id = cid}
    IN  IF hits = {} THEN 0 ELSE CHOOSE k \in hits : \A j \in hits : k <= j

\* c.participants.some(p => p.id === u)
HasParticipant(c, u) == \E p \in DOMAIN c.participants : c.participants[p] = u

\* The lookup with the participants compared in order (current user first)
FindConversationOrdered(convs, bookId, sellerId, userId) ==
    LET hits == {k \in DOMAIN convs :
                    /\ convs[k].bookId = bookId
                    /\ convs[k].participants = <<userId, sellerId>>}
    IN  IF hits = {} THEN 0 ELSE CHOOSE k \in hits : \A j \in hits : k <= j

\* BookMessaging's lookup: the first conversation about this book having
\* both the seller and the current user among its participants
FindConversation(convs, bookId, sellerId, userId) ==
    LET hits == {k \in DOMAIN convs :
                    /\ convs[k].bookId = bookId
                    /\ HasParticipant(convs[k], sellerId)
                    /\ HasParticipant(convs[k], userId)}
    IN  IF hits = {} THEN 0 ELSE CHOOSE k \in hits : \A j \in hits : k <= j

\* The message literal built by sendMessage, createNewConversation and
\* createOrUpdateConversation
NewMessage(now, sender, text) ==
    [id |-> <<now>>, senderId |-> sender, text |-> text,
     timestamp |-> now, read |-> FALSE]

\* The conversation literal built by createNewConversation and
\* createOrUpdateConversation
NewConversation(now, user, other, bookId, text) ==
    [id |-> <<now>>, participants |-> <<user, other>>, bookId |-> bookId,
     messages |-> <<NewMessage(now, user, text)>>]

\* Marking with the sender test left out
MarkReadAll(msgs, reader) ==
    [j \in DOMAIN msgs |-> [msgs[j] EXCEPT !.read = TRUE]]

\* conversation.messages.forEach(m => { if (m.senderId !== reader) m.read = true })
MarkRead(msgs, reader) ==
    [j \in DOMAIN msgs |->
        IF msgs[j].senderId # reader THEN [msgs[j] EXCEPT !.read = TRUE]
        ELSE msgs[j]]

\* markMessagesAsRead on a list: the first conversation with this id is
\* marked, nothing else changes; the list itself when the id is unknown
MarkMessagesAsRead(convs, cid, reader) ==
    LET k == FindById(convs, cid)
    IN  IF k = 0 THEN convs
        ELSE [convs EXCEPT ![k].messages = MarkRead(convs[k].messages, reader)]

\* createConversationItem's test for the unread indicator:
\* conversation.messages.some(m => !m.read && m.senderId !== currentUser.id)
HasUnread(c, u) ==
    \E j \in DOMAIN c.messages :
        ~c.messages[j].read /\ c.messages[j].senderId # u

\* createConversationItem: the sidebar item of a conversation, with the id
\* it carries, the preview and time of the last message and the indicator
ConversationItem(c, u) ==
    [conversationId |-> c.id,
     preview |-> c.messages[Len(c.messages)].text,
     time |-> c.messages[Len(c.messages)].timestamp,
     unread |-> HasUnread(c, u)]

\* displayConversations: one item per conversation of the object's list, in
\* the order of the list
DisplayConversations(convs, u) ==
    [k \in DOMAIN convs |-> ConversationItem(convs[k], u)]

TestUsers == <<"user1", "user2", "user3">>
TestBooks == <<"book1", "book2", "book3">>
Day == 86400000
Hour == 3600000
Minute == 60000

\* The four messages createTestConversations gives conversation index
\* (0-based), with their timestamps in the past
TestMessages(now, user, index) ==
    << [id |-> <<"msg1", index>>, senderId |-> user, text |-> "test1",
        timestamp |-> now - 3 * Day - index * Hour, read |-> TRUE],
       [id |-> <<"msg2", index>>, senderId |-> TestUsers[index + 1],
        text |-> "test2",
        timestamp |-> now - 2 * Day - index * 30 * Minute, read |-> TRUE],
       [id |-> <<"msg3", index>>, senderId |-> user, text |-> "test3",
        timestamp |-> now - 1 * Day - index * 15 * Minute, read |-> TRUE],
       [id |-> <<"msg4", index>>, senderId |-> TestUsers[index + 1],
        text |-> "test4",
        timestamp |-> now - 12 * Hour - index * 5 * Minute,
        read |-> (index # 0)] >>

\* The three conversations createTestConversations builds
TestConversations(now, user) ==
    [k \in 1..3 |->
        [id |-> <<now, k - 1>>,
         participants |-> <<user, TestUsers[k]>>,
         bookId |-> TestBooks[k],
         messages |-> TestMessages(now, user, k - 1)]]

----------------------------------------------------------------------------
(* Initial state: a fresh browser profile, no page loaded yet *)

NoNotificationSystem ==
    [alive |-> FALSE, currentUser |-> NoUser, notifications |-> <<>>,
     unreadCount |-> 0]

\* The page before createNotificationElements has run; href is the page a
\* handler has set window.location.href to ("" when none has)
NoDom ==
    [badge |-> [display |-> "absent", text |-> ""], open |-> FALSE,
     list |-> <<>>, href |-> ""]

NoMessaging ==
    [alive |-> FALSE, currentUser |-> NoUser, conversations |-> <<>>,
     activeConversationId |-> NoId]

Init ==
    /\ clock = 0
    /\ currentUser = NoUser
    /\ convStore = <<>>
    /\ ms = [i \in Pages |-> NoMessaging]
    /\ bm = [alive |-> FALSE, currentUser |-> NoUser]
    /\ notifStore = <<>>
    /\ ns = [i \in Objs |-> NoNotificationSystem]
    /\ dom = NoDom
    /\ toasts = <<>>
    /\ lastReturn = "none"
    /\ errors = {}

----------------------------------------------------------------------------
(* Environment *)

\* Time passes: Date.now() advances
Tick ==
    /\ clock < MaxClock
    /\ clock' = clock + 1
    /\ UNCHANGED <<currentUser, convVars, notifVars, errors>>

\* AuthSystem login: localStorage.setItem('currentUser', ...)
Login(u) ==
    /\ currentUser' = u
    /\ UNCHANGED <<clock, convVars, notifVars, errors>>

\* AuthSystem.handleLogout: localStorage.removeItem('currentUser')
Logout ==
    /\ currentUser # NoUser
    /\ currentUser' = NoUser
    /\ UNCHANGED <<clock, convVars, notifVars, errors>>

----------------------------------------------------------------------------
(* MessagingSystem (js/messaging.js) *)

\* saveConversationsToStorage: the object's own list replaces the stored one
SaveConversations(i, convs) ==
    /\ ms' = [ms EXCEPT ![i].conversations = convs]
    /\ convStore' = convs

\* new MessagingSystem() on page load
MessagingConstruct(i) ==
    /\ ms' = [ms EXCEPT ![i] =
                [alive |-> TRUE, currentUser |-> currentUser,
                 conversations |-> convStore, activeConversationId |-> NoId]]
    /\ UNCHANGED <<clock, currentUser, convStore, bm, notifVars, errors>>

\* A click on conversation item k of the sidebar: the conversation becomes
\* the active one and loadConversationMessages marks its messages read
SelectConversation(i, k) ==
    /\ ms[i].alive
    /\ ms[i].currentUser # NoUser
    /\ k \in DOMAIN ms[i].conversations
    /\ LET cid == ms[i].conversations[k].id
           convs == MarkMessagesAsRead(ms[i].conversations, cid,
                                       ms[i].currentUser)
       IN  /\ ms' = [ms EXCEPT ![i].activeConversationId = cid,
                               ![i].conversations = convs]
           /\ convStore' = convs
    /\ UNCHANGED <<clock, currentUser, bm, notifVars, errors>>

\* sendMessage with this text in the chat input. An object without user has
\* no active conversation: no click handler was set up for it.
SendMessage(i, input) ==
    /\ ms[i].alive
    /\ LET text == trim(input)
           k == FindById(ms[i].conversations, ms[i].activeConversationId)
       IN  IF \/ text = ""
              \/ ms[i].activeConversationId = NoId
              \/ k = 0
           THEN UNCHANGED <<ms, convStore>>
           ELSE /\ Len(ms[i].conversations[k].messages) < MaxMsgs
                /\ SaveConversations(i,
                      [ms[i].conversations EXCEPT ![k].messages =
                          Append(@, NewMessage(clock, ms[i].currentUser, text))])
    /\ UNCHANGED <<clock, currentUser, bm, notifVars, errors>>

\* createNewConversation(otherUser, book, initialMessage)
CreateNewConversation(i, other, bookId, text) ==
    /\ ms[i].alive
    /\ IF ms[i].currentUser = NoUser
       THEN \* this.currentUser.id on null: TypeError before anything is saved
            /\ errors' = errors \cup {"createNewConversation"}
            /\ UNCHANGED <<ms, convStore>>
       ELSE /\ Len(ms[i].conversations) < MaxConvs
            /\ SaveConversations(i,
                  Append(ms[i].conversations,
                         NewConversation(clock, ms[i].currentUser, other,
                                         bookId, text)))
            /\ UNCHANGED errors
    /\ UNCHANGED <<clock, currentUser, bm, notifVars>>

\* createTestConversations: only when the object's list is empty
CreateTestConversations(i) ==
    /\ ms[i].alive
    /\ IF Len(ms[i].conversations) > 0
       THEN UNCHANGED <<ms, convStore, errors>>
       ELSE IF ms[i].currentUser = NoUser
       THEN \* this.currentUser.id on null: TypeError before anything is saved
            /\ errors' = errors \cup {"createTestConversations"}
            /\ UNCHANGED <<ms, convStore>>
       ELSE /\ SaveConversations(i, TestConversations(clock, ms[i].currentUser))
            /\ UNCHANGED errors
    /\ UNCHANGED <<clock, currentUser, bm, notifVars>>

----------------------------------------------------------------------------
(* BookMessaging (js/book-messaging.js) *)

\* new BookMessaging() on page load
BookMessagingConstruct ==
    /\ bm' = [alive |-> TRUE, currentUser |-> currentUser]
    /\ UNCHANGED <<clock, currentUser, convStore, ms, notifVars, errors>>

\* A click on a message-seller button: without user an alert and the login
\* page, for the user's own book an alert, else the message modal opens;
\* nothing is stored
MessageSellerButton(sellerId) ==
    /\ bm.alive
    /\ UNCHANGED vars

\* What createOrUpdateConversation stores, given what it loaded
CreateOrUpdate(convs, now, user, bookId, sellerId, text) ==
    LET k == FindConversation(convs, bookId, sellerId, user)
    IN  IF k # 0
        THEN [convs EXCEPT ![k].messages = Append(@, NewMessage(now, user, text))]
        ELSE Append(convs, NewConversation(now, user, sellerId, bookId, text))

\* The message-seller button, the modal's Send button and
\* createOrUpdateConversation(bookId, bookTitle, sellerId, sellerName, text)
CreateOrUpdateConversation(bookId, sellerId, input) ==
    /\ bm.alive
    /\ bm.currentUser # NoUser
    /\ sellerId # bm.currentUser
    /\ trim(input) # ""
    /\ LET k == FindConversation(convStore, bookId, sellerId, bm.currentUser)
       IN  IF k # 0 THEN Len(convStore[k].messages) < MaxMsgs
           ELSE Len(convStore) < MaxConvs
    /\ convStore' = CreateOrUpdate(convStore, clock, bm.currentUser, bookId,
                                   sellerId, trim(input))
    /\ UNCHANGED <<clock, currentUser, ms, bm, notifVars, errors>>

----------------------------------------------------------------------------
(* NotificationSystem (js/notifications.js) *)

Kinds == {"new_listing", "message", "transaction", "review", "system"}
NoLink == ""                   \* link: null

\* The link simulateNewNotification gives each kind
SimulatedLink(kind) ==
    CASE kind = "new_listing" -> "browse.html"
      [] kind = "message" -> "messages.html"
      [] kind = "transaction" -> "dashboard.html?tab=transactions"
      [] kind = "review" -> "dashboard.html?tab=reviews"
      [] OTHER -> NoLink

\* The notification literal built by addNotification. owner is not a field of
\* the program's object: it records who was the object's user at creation.
NewNotification(now, rnd, kind, link, owner) ==
    [id |-> <<now, rnd>>, type |-> kind, timestamp |-> now,
     read |-> FALSE, seen |-> FALSE, link |-> link, owner |-> owner]

\* getUnreadCount: notifications.filter(n => !n.read).length
UnreadCount(list) == Cardinality({k \in DOMAIN list : ~list[k].read})

\* The badge with the count written out whatever it is
UpdateBadgeUncapped(badge, count) ==
    IF count > 0
    THEN [display |-> "flex", text |-> ToString(count)]
    ELSE [badge EXCEPT !.display = "none"]

\* updateNotificationBadge on the badge element
UpdateBadge(badge, count) ==
    IF count > 0
    THEN [display |-> "flex",
          text |-> IF count > 9 THEN "9+" ELSE ToString(count)]
    ELSE [badge EXCEPT !.display = "none"]

\* Array.prototype.sort by timestamp, newest first; the sort is stable
RECURSIVE SortNewestFirst(_)
SortNewestFirst(list) ==
    IF list = <<>> THEN <<>>
    ELSE LET rest == SortNewestFirst(SubSeq(list, 1, Len(list) - 1))
             x == list[Len(list)]
             before == {k \in DOMAIN rest : rest[k].timestamp >= x.timestamp}
             n == Cardinality(before)
         IN  SubSeq(rest, 1, n) \o <<x>> \o SubSeq(rest, n + 1, Len(rest))

DropdownSize == 5

\* renderNotifications: the five most recent notifications
Render(list) ==
    LET sorted == SortNewestFirst(list)
    IN  SubSeq(sorted, 1, IF Len(sorted) < DropdownSize THEN Len(sorted)
                          ELSE DropdownSize)

\* notifications.find(n => n.id === id): index of the first, 0 when none
FindNotification(list, id) ==
    LET hits == {k \in DOMAIN list : list[k].id = id}
    IN  IF hits = {} THEN 0 ELSE CHOOSE k \in hits : \A j \in hits : k <= j

\* The toast element showToastNotification appends, with its handlers and
\* timers: auto is the pending 5 s timer, removals the pending 300 ms timers
\* in the order they were set. detached and ran count the detachments of the
\* element and the removal callbacks that have run.
NewToast(i, n) ==
    [by |-> i, nid |-> n.id, type |-> n.type, link |-> n.link,
     attached |-> TRUE, visible |-> FALSE, hiding |-> FALSE, auto |-> TRUE,
     removals |-> <<>>, closeClicks |-> 0, bodyClicks |-> 0,
     detached |-> 0, ran |-> 0]

\* saveNotificationsToStorage, then updateNotificationBadge, and
\* renderNotifications where the method calls it
Commit(i, list, render) ==
    /\ ns' = [ns EXCEPT ![i].notifications = list,
                        ![i].unreadCount = UnreadCount(list)]
    /\ notifStore' = list
    /\ dom' = [dom EXCEPT !.badge = UpdateBadge(@, UnreadCount(list)),
                          !.list = IF render THEN Render(list) ELSE @]

\* new NotificationSystem() on page load: createNotificationElements leaves
\* existing elements alone; startNotificationPolling starts the interval
NotificationConstruct(i) ==
    /\ i = 2 => ns[1].alive
    /\ ns' = [ns EXCEPT ![i] =
                [alive |-> TRUE, currentUser |-> currentUser,
                 notifications |-> notifStore,
                 unreadCount |-> UnreadCount(notifStore)]]
    /\ dom' = [dom EXCEPT !.badge =
                  UpdateBadge(IF @.display = "absent"
                              THEN [display |-> "shown", text |-> "0"] ELSE @,
                              UnreadCount(notifStore))]
    /\ UNCHANGED <<clock, currentUser, convVars, notifStore, toasts,
                   lastReturn, errors>>

\* The page is left (navigation, reload, closed tab): its objects, DOM and
\* timers are gone
PageUnload ==
    /\ ns[1].alive
    /\ ns' = [i \in Objs |-> NoNotificationSystem]
    /\ dom' = NoDom
    /\ toasts' = <<>>
    /\ UNCHANGED <<clock, currentUser, convVars, notifStore, lastReturn, errors>>

\* Seeing that also reads
MarkAllSeenAndRead(list) ==
    [k \in DOMAIN list |-> [list[k] EXCEPT !.seen = TRUE, !.read = TRUE]]

\* markNotificationsAsSeen on a non-empty list: every notification is seen
MarkAllSeen(list) == [k \in DOMAIN list |-> [list[k] EXCEPT !.seen = TRUE]]

\* A click on the bell: toggleNotificationDropdown; when the dropdown opens,
\* markNotificationsAsSeen saves and updates the badge
ToggleNotificationDropdown(i) ==
    /\ ns[i].alive
    /\ IF dom.open
       THEN /\ dom' = [dom EXCEPT !.open = FALSE]
            /\ UNCHANGED <<ns, notifStore>>
       ELSE IF Len(ns[i].notifications) = 0
       THEN /\ dom' = [dom EXCEPT !.open = TRUE]
            /\ UNCHANGED <<ns, notifStore>>
       ELSE LET list == MarkAllSeen(ns[i].notifications)
            IN  /\ ns' = [ns EXCEPT ![i].notifications = list,
                                    ![i].unreadCount = UnreadCount(list)]
                /\ notifStore' = list
                /\ dom' = [dom EXCEPT
                             !.open = TRUE,
                             !.badge = UpdateBadge(@, UnreadCount(list))]
    /\ UNCHANGED <<clock, currentUser, convVars, toasts, lastReturn, errors>>

\* A click outside the dropdown: closeNotificationDropdown
CloseNotificationDropdown ==
    /\ ns[1].alive
    /\ dom.open
    /\ dom' = [dom EXCEPT !.open = FALSE]
    /\ UNCHANGED <<clock, currentUser, convVars, notifStore, ns, toasts,
                   lastReturn, errors>>

\* markAllAsRead
MarkAllAsRead(i) ==
    /\ ns[i].alive
    /\ IF Len(ns[i].notifications) = 0
       THEN UNCHANGED <<ns, notifStore, dom>>
       ELSE Commit(i, [k \in DOMAIN ns[i].notifications |->
                         [ns[i].notifications[k] EXCEPT !.read = TRUE]], TRUE)
    /\ UNCHANGED <<clock, currentUser, convVars, toasts, lastReturn, errors>>

\* Marking that flips the flag
MarkAsReadToggle(list, id) ==
    LET k == FindNotification(list, id)
    IN  IF k = 0 THEN list ELSE [list EXCEPT ![k].read = ~@]

\* What markAsRead(id) makes of the object's list
MarkAsReadList(list, id) ==
    LET k == FindNotification(list, id)
    IN  IF k = 0 THEN list ELSE [list EXCEPT ![k].read = TRUE]

\* markAsRead(id), from a mark-read button
MarkAsRead(i, id) ==
    /\ ns[i].alive
    /\ IF FindNotification(ns[i].notifications, id) = 0
       THEN UNCHANGED <<ns, notifStore, dom>>
       ELSE Commit(i, MarkAsReadList(ns[i].notifications, id), TRUE)
    /\ UNCHANGED <<clock, currentUser, convVars, toasts, lastReturn, errors>>

\* Adding at the tail of the list
Push(list, n) == Append(list, n)

\* Adding unless the list holds a notification of this kind and time
UnshiftDeduplicated(list, n) ==
    IF \E k \in DOMAIN list :
          list[k].type = n.type /\ list[k].timestamp = n.timestamp
    THEN list
    ELSE <<n>> \o list

\* An unshift that puts the notification in front twice
UnshiftTwice(list, n) == <<n, n>> \o list

\* this.notifications.unshift(newNotification)
Unshift(list, n) == <<n>> \o list

\* The body of addNotification({type, link, ...}); rnd is Math.random()'s draw
AddNotificationBody(i, kind, link, rnd) ==
    IF ns[i].currentUser = NoUser
    THEN /\ lastReturn' = "false"
         /\ UNCHANGED <<ns, notifStore, dom, toasts>>
    ELSE LET n == NewNotification(clock, rnd, kind, link, ns[i].currentUser)
         IN  /\ Commit(i, Unshift(ns[i].notifications, n), TRUE)
             /\ toasts' = Append(toasts, NewToast(i, n))
             /\ lastReturn' = "true"

\* addNotification called by another component (the transaction manager)
AddNotification(i, kind, link, rnd) ==
    /\ ns[i].alive
    /\ AddNotificationBody(i, kind, link, rnd)
    /\ UNCHANGED <<clock, currentUser, convVars, errors>>

\* One tick of the interval startNotificationPolling set: when the object has
\* a user, Math.random() < 0.1 decides whether simulateNewNotification runs
PollingTick(i) ==
    /\ ns[i].alive
    /\ IF ns[i].currentUser = NoUser
       THEN UNCHANGED notifVars
       ELSE \/ UNCHANGED notifVars
            \/ \E kind \in Kinds : \E rnd \in 1..MaxRand :
                  AddNotificationBody(i, kind, SimulatedLink(kind), rnd)
    /\ UNCHANGED <<clock, currentUser, convVars, errors>>

\* The intervals set by startNotificationPolling that are running on the
\* page: one for every object constructed on it, none is ever cleared
PollingTimers == {i \in Objs : ns[i].alive}

----------------------------------------------------------------------------
(* Toasts (showToastNotification) *)

\* The 10 ms timer: the toast gets the class toast-visible
ToastShow(t) ==
    /\ t \in DOMAIN toasts
    /\ ~toasts[t].visible
    /\ toasts' = [toasts EXCEPT ![t].visible = TRUE]
    /\ UNCHANGED <<clock, currentUser, convVars, notifStore, ns, dom,
                   lastReturn, errors>>

\* A click on the close button of a toast that is on the page: the class
\* toast-hiding, and a 300 ms timer whose callback calls removeChild
ToastCloseClick(t) ==
    /\ t \in DOMAIN toasts
    /\ toasts[t].attached
    /\ toasts[t].closeClicks < MaxClicks
    /\ toasts' = [toasts EXCEPT ![t].hiding = TRUE,
                                ![t].closeClicks = @ + 1,
                                ![t].removals = Append(@, "unguarded")]
    /\ UNCHANGED <<clock, currentUser, convVars, notifStore, ns, dom,
                   lastReturn, errors>>

\* The destination with the link ignored
ClickDestinationByKind(kind, link, href) ==
    CASE kind = "new_listing" -> "browse.html?book="
      [] kind = "message" -> "messages.html?conversation="
      [] kind = "transaction" -> "dashboard.html?tab=transactions"
      [] kind = "review" -> "dashboard.html?tab=reviews"
      [] OTHER -> href

\* What handleNotificationClick sets window.location.href to: the link, or
\* the page of the kind (with the id of the notification's data appended),
\* or nothing
ClickDestination(kind, link, href) ==
    IF link # NoLink THEN link
    ELSE CASE kind = "new_listing" -> "browse.html?book="
           [] kind = "message" -> "messages.html?conversation="
           [] kind = "transaction" -> "dashboard.html?tab=transactions"
           [] kind = "review" -> "dashboard.html?tab=reviews"
           [] OTHER -> href

\* handleNotificationClick(notification) on object i: markAsRead, then the
\* link or the kind's page; a system notification without link closes the
\* dropdown
HandleNotificationClick(i, id, kind, link) ==
    /\ IF FindNotification(ns[i].notifications, id) = 0
       THEN /\ UNCHANGED <<ns, notifStore>>
            /\ dom' = [dom EXCEPT
                         !.href = ClickDestination(kind, link, @),
                         !.open =
                          IF link = NoLink /\ kind = "system" THEN FALSE ELSE @]
       ELSE LET list == MarkAsReadList(ns[i].notifications, id)
            IN  /\ ns' = [ns EXCEPT ![i].notifications = list,
                                    ![i].unreadCount = UnreadCount(list)]
                /\ notifStore' = list
                /\ dom' = [dom EXCEPT
                             !.badge = UpdateBadge(@, UnreadCount(list)),
                             !.list = Render(list),
                             !.href = ClickDestination(kind, link, @),
                             !.open = IF link = NoLink /\ kind = "system"
                                      THEN FALSE ELSE @]

\* A click on entry k of the open dropdown, rendered by object i
EntryClick(i, k) ==
    /\ ns[i].alive
    /\ dom.open
    /\ k \in DOMAIN dom.list
    /\ HandleNotificationClick(i, dom.list[k].id, dom.list[k].type,
                               dom.list[k].link)
    /\ UNCHANGED <<clock, currentUser, convVars, toasts, lastReturn, errors>>

\* A click on the body of a toast that is on the page:
\* handleNotificationClick, the class toast-hiding, and a 300 ms timer whose
\* callback removes the toast if the container still contains it
ToastClick(t) ==
    /\ t \in DOMAIN toasts
    /\ toasts[t].attached
    /\ toasts[t].bodyClicks < MaxClicks
    /\ HandleNotificationClick(toasts[t].by, toasts[t].nid, toasts[t].type,
                               toasts[t].link)
    /\ toasts' = [toasts EXCEPT ![t].hiding = TRUE,
                                ![t].bodyClicks = @ + 1,
                                ![t].removals = Append(@, "guarded")]
    /\ UNCHANGED <<clock, currentUser, convVars, lastReturn, errors>>

\* A 5 s timer that adds the class toast-hiding and sets no removal timer
ToastAutoHideOnly(t) ==
    /\ t \in DOMAIN toasts
    /\ toasts[t].visible
    /\ toasts[t].auto
    /\ toasts' = [toasts EXCEPT ![t].hiding = TRUE,
                                ![t].auto = FALSE]
    /\ UNCHANGED <<clock, currentUser, convVars, notifStore, ns, dom,
                   lastReturn, errors>>

\* The 5 s timer set at creation (after the 10 ms one): the class
\* toast-hiding, and a guarded 300 ms timer
ToastAutoHide(t) ==
    /\ t \in DOMAIN toasts
    /\ toasts[t].visible
    /\ toasts[t].auto
    /\ toasts' = [toasts EXCEPT ![t].hiding = TRUE,
                                ![t].auto = FALSE,
                                ![t].removals = Append(@, "guarded")]
    /\ UNCHANGED <<clock, currentUser, convVars, notifStore, ns, dom,
                   lastReturn, errors>>

\* The callback with the contains test of the guarded timers inverted
RemoveToastInverted(toast, kind) ==
    IF toast.attached /\ kind = "unguarded"
    THEN [toast EXCEPT !.attached = FALSE, !.detached = @ + 1,
                       !.ran = @ + 1, !.removals = Tail(@)]
    ELSE [toast EXCEPT !.ran = @ + 1, !.removals = Tail(@)]

\* What the callback of a 300 ms timer does to the toast: removeChild detaches
\* a toast that is a child of the container
RemoveToast(toast, kind) ==
    IF toast.attached
    THEN [toast EXCEPT !.attached = FALSE, !.detached = @ + 1,
                       !.ran = @ + 1, !.removals = Tail(@)]
    ELSE [toast EXCEPT !.ran = @ + 1, !.removals = Tail(@)]

\* The oldest pending 300 ms timer of toast t fires. removeChild on a node
\* that is not a child throws NotFoundError; the guarded callbacks test
\* contains(toast) first.
ToastRemoval(t) ==
    /\ t \in DOMAIN toasts
    /\ toasts[t].removals # <<>>
    /\ toasts' = [toasts EXCEPT ![t] = RemoveToast(@, Head(@.removals))]
    /\ errors' = IF Head(toasts[t].removals) = "unguarded" /\ ~toasts[t].attached
                 THEN errors \cup {"removeChild"}
                 ELSE errors
    /\ UNCHANGED <<clock, currentUser, convVars, notifStore, ns, dom,
                   lastReturn>>

----------------------------------------------------------------------------
(* The notification engine of one page, with one NotificationSystem *)

\* The bound on the length of the list: addNotification is not followed into
\* a longer list
Room(i, max) ==
    ns[i].currentUser = NoUser \/ Len(ns[i].notifications) < max

NextNotif ==
    \/ Tick
    \/ \E u \in Users : Login(u)
    \/ Logout
    \/ NotificationConstruct(1)
    \/ PageUnload
    \/ ToggleNotificationDropdown(1)
    \/ CloseNotificationDropdown
    \/ MarkAllAsRead(1)
    \/ \E k \in 1..MaxNotifs :
          /\ k \in DOMAIN ns[1].notifications
          /\ MarkAsRead(1, ns[1].notifications[k].id)
    \/ /\ Room(1, MaxNotifs)
       /\ \E rnd \in 1..MaxRand :
             AddNotification(1, "transaction", SimulatedLink("transaction"), rnd)
    \/ /\ Room(1, MaxNotifs)
       /\ PollingTick(1)

SpecNotif == Init /\ [][NextNotif]_vars

(* The toasts of one page *)

NextToast ==
    \/ \E u \in Users : Login(u)
    \/ NotificationConstruct(1)
    \/ /\ Len(toasts) < MaxToasts
       /\ \E kind \in {"transaction", "system"} :
             AddNotification(1, kind, SimulatedLink(kind), 1)
    \/ \E t \in 1..MaxToasts : ToastShow(t)
    \/ \E t \in 1..MaxToasts : ToastCloseClick(t)
    \/ \E t \in 1..MaxToasts : ToastClick(t)
    \/ \E t \in 1..MaxToasts : ToastAutoHide(t)
    \/ \E t \in 1..MaxToasts : ToastRemoval(t)

SpecToast == Init /\ [][NextToast]_vars

\* The toasts of one page with the timers firing: a timer that was set (the
\* 10 ms one, the 5 s one, a 300 ms one) runs its callback in the end. Clicks
\* are the user's and need not happen.
ToastTimersFire ==
    \A t \in 1..MaxToasts :
        /\ WF_vars(ToastShow(t))
        /\ WF_vars(ToastAutoHide(t))
        /\ WF_vars(ToastRemoval(t))

SpecToastFair == Init /\ [][NextToast]_vars /\ ToastTimersFire

(* One NotificationSystem and its list, followed into longer lists *)

UnknownId == <<"unknown">>     \* an id no notification has

NextList ==
    \/ Tick
    \/ Login("u1")
    \/ NotificationConstruct(1)
    \/ PageUnload
    \/ ToggleNotificationDropdown(1)
    \/ CloseNotificationDropdown
    \/ MarkAllAsRead(1)
    \/ \E k \in 1..MaxList :
          /\ k \in DOMAIN ns[1].notifications
          /\ MarkAsRead(1, ns[1].notifications[k].id)
    \/ MarkAsRead(1, UnknownId)
    \/ /\ Room(1, MaxList)
       /\ \E rnd \in 1..MaxRand :
             AddNotification(1, "transaction", SimulatedLink("transaction"), rnd)

SpecList == Init /\ [][NextList]_vars

(* One NotificationSystem and its badge, followed to more than nine unread
   notifications *)

NextBadge ==
    \/ Login("u1")
    \/ NotificationConstruct(1)
    \/ ToggleNotificationDropdown(1)
    \/ MarkAllAsRead(1)
    \/ /\ ns[1].notifications # <<>>
       /\ MarkAsRead(1, ns[1].notifications[1].id)
    \/ /\ Room(1, MaxBadge)
       /\ AddNotification(1, "system", SimulatedLink("system"), 1)

SpecBadge == Init /\ [][NextBadge]_vars

(* One NotificationSystem whose toasts and dropdown entries are clicked *)

\* The notifications added: one with a link, one without link of a kind
\* that has a page, one of kind system without link
ClickedKinds ==
    {<<"new_listing", "browse.html">>, <<"message", NoLink>>,
     <<"system", NoLink>>}

NextClick ==
    \/ Login("u1")
    \/ NotificationConstruct(1)
    \/ ToggleNotificationDropdown(1)
    \/ /\ Room(1, MaxClickList)
       /\ \E kl \in ClickedKinds : \E rnd \in 1..MaxRand :
             AddNotification(1, kl[1], kl[2], rnd)
    \/ \E t \in 1..MaxClickList : ToastClick(t)
    \/ \E k \in 1..MaxClickList : EntryClick(1, k)

SpecClick == Init /\ [][NextClick]_vars

(* The notifications page: two NotificationSystem objects on one store *)

NextTwo ==
    \/ Tick
    \/ Login("u1")
    \/ \E i \in Objs : NotificationConstruct(i)
    \/ \E i \in Objs : MarkAllAsRead(i)
    \/ \E i \in Objs : \E k \in 1..MaxShared :
          /\ k \in DOMAIN ns[i].notifications
          /\ MarkAsRead(i, ns[i].notifications[k].id)
    \/ \E i \in Objs : \E rnd \in 1..MaxRand :
          /\ Room(i, MaxShared)
          /\ Len(toasts) <= MaxShared
          /\ AddNotification(i, "transaction", SimulatedLink("transaction"), rnd)

SpecTwo == Init /\ [][NextTwo]_vars

----------------------------------------------------------------------------
(* The conversation engine on one page *)

Books == {"book1"}
Sellers == Users

NextConv ==
    \/ Tick
    \/ \E u \in Users : Login(u)
    \/ Logout
    \/ MessagingConstruct(1)
    \/ \E k \in 1..3 : SelectConversation(1, k)
    \/ \E t \in Inputs : SendMessage(1, t)
    \/ \E o \in Sellers \ {ms[1].currentUser} : \E b \in Books :
          CreateNewConversation(1, o, b, "hi")
    \/ CreateTestConversations(1)
    \/ BookMessagingConstruct
    \/ \E s \in Sellers : MessageSellerButton(s)
    \/ \E b \in Books : \E s \in Sellers : \E t \in Inputs :
          CreateOrUpdateConversation(b, s, t)

SpecConv == Init /\ [][NextConv]_vars

(* Two pages, each with its MessagingSystem, on the same store *)

NextShared ==
    \/ Tick
    \/ \E u \in Users : Login(u)
    \/ \E i \in Pages : MessagingConstruct(i)
    \/ \E i \in Pages : \E k \in 1..3 : SelectConversation(i, k)
    \/ \E i \in Pages : \E t \in Inputs : SendMessage(i, t)
    \/ \E i \in Pages : CreateTestConversations(i)
    \/ BookMessagingConstruct
    \/ \E b \in Books : \E s \in Sellers : \E t \in Inputs :
          CreateOrUpdateConversation(b, s, t)

SpecShared == Init /\ [][NextShared]_vars

----------------------------------------------------------------------------
(* Properties of the conversation engine *)

\* The unordered pair of participant ids of a conversation
Pair(c) == {c.participants[p] : p \in DOMAIN c.participants}

\* C1: in the persisted conversation store there is at most one conversation
\* for a book id and an unordered pair of participant ids
IdentityInvariant ==
    \A j, k \in DOMAIN convStore :
        (/\ convStore[j].bookId = convStore[k].bookId
         /\ Pair(convStore[j]) = Pair(convStore[k])) => j = k

\* C2: createOrUpdateConversation for a book and two users who already have
\* a stored conversation about it, whoever of the two is the current user,
\* keeps the number of conversations and every conversation id, and appends
\* its message to the first such conversation; when they have none, it
\* creates exactly one for them
ResolveOrCreateIdempotent ==
    [][\A b \in Books : \A s \in Sellers : \A t \in Inputs :
        CreateOrUpdateConversation(b, s, t) =>
          LET same == {k \in DOMAIN convStore :
                          /\ convStore[k].bookId = b
                          /\ Pair(convStore[k]) = {s, bm.currentUser}}
          IN  IF same # {}
              THEN /\ Len(convStore') = Len(convStore)
                   /\ \A k \in DOMAIN convStore :
                         /\ convStore'[k].id = convStore[k].id
                         /\ convStore'[k].participants = convStore[k].participants
                         /\ convStore'[k].bookId = convStore[k].bookId
                         /\ Len(convStore'[k].messages) =
                              Len(convStore[k].messages)
                                + (IF k \in same /\ \A j \in same : k <= j
                                   THEN 1 ELSE 0)
              ELSE /\ Len(convStore') = Len(convStore) + 1
                   /\ SubSeq(convStore', 1, Len(convStore)) = convStore
                   /\ convStore'[Len(convStore')].bookId = b
                   /\ Pair(convStore'[Len(convStore')]) = {s, bm.currentUser}
      ]_vars

\* C2 witness: no MessagingSystem was ever built, and a stored conversation
\* holds messages of both its participants: the second user resolved to the
\* conversation the first one created
ResolvedByOtherParticipant ==
    /\ ~ms[1].alive
    /\ Len(convStore) = 1
    /\ Len(convStore[1].messages) = 2
    /\ convStore[1].messages[1].senderId = convStore[1].participants[1]
    /\ convStore[1].messages[2].senderId = convStore[1].participants[2]

ReadMonotonic ==
    [][\A c \in DOMAIN convStore : \A j \in DOMAIN convStore[c].messages :
        (/\ convStore[c].messages[j].read
         /\ c \in DOMAIN convStore'
         /\ convStore'[c].bookId = convStore[c].bookId
         /\ convStore'[c].participants = convStore[c].participants
         /\ j \in DOMAIN convStore'[c].messages
         /\ convStore'[c].messages[j].id = convStore[c].messages[j].id
         /\ convStore'[c].messages[j].senderId = convStore[c].messages[j].senderId)
        => convStore'[c].messages[j].read
      ]_vars

\* C15: sendMessage with an input that is empty or blank, with no active
\* conversation, or with an active id that no conversation has, leaves the
\* object's conversations and the persisted ones as they were; otherwise the
\* active conversation gets exactly one more message, unread and sent by the
\* current user, behind the messages it had, nothing else changes in the
\* object's list, and that list is what is persisted
SendRejectsOrAppendsOne ==
    [][\A i \in Pages : \A t \in Inputs :
        SendMessage(i, t) =>
          LET old == ms[i].conversations
              new == ms'[i].conversations
              k == FindById(old, ms[i].activeConversationId)
          IN  IF t \in {"", " "} \/ ms[i].activeConversationId = NoId \/ k = 0
              THEN UNCHANGED <<ms, convStore>>
              ELSE /\ DOMAIN new = DOMAIN old
                   /\ \A c \in DOMAIN old : c # k => new[c] = old[c]
                   /\ [new[k] EXCEPT !.messages = <<>>] =
                        [old[k] EXCEPT !.messages = <<>>]
                   /\ Len(new[k].messages) = Len(old[k].messages) + 1
                   /\ SubSeq(new[k].messages, 1, Len(old[k].messages)) =
                        old[k].messages
                   /\ ~new[k].messages[Len(new[k].messages)].read
                   /\ new[k].messages[Len(new[k].messages)].senderId =
                        ms[i].currentUser
                   /\ new[k].messages[Len(new[k].messages)].text = t
                   /\ convStore' = new
                   /\ ms'[i].activeConversationId = ms[i].activeConversationId
      ]_vars

\* C15 witness: no BookMessaging was ever built, and the active conversation
\* of the page, as persisted, holds a second message of the current user,
\* unread: sendMessage appended it
SentSecondMessage ==
    /\ ~bm.alive
    /\ ms[1].alive
    /\ convStore = ms[1].conversations
    /\ \E c \in DOMAIN convStore :
          /\ convStore[c].id = ms[1].activeConversationId
          /\ Len(convStore[c].messages) = 2
          /\ convStore[c].messages[2].senderId = ms[1].currentUser
          /\ ~convStore[c].messages[2].read
          /\ convStore[c].messages[2].text = "hi"

\* C16: in the persisted store the messages of a conversation (same id, book
\* and participants) stay where they are, with their id, sender and text, and
\* new ones come behind them
MessagesKeptInOrder ==
    [][\A c \in DOMAIN convStore :
        (/\ c \in DOMAIN convStore'
         /\ convStore'[c].id = convStore[c].id
         /\ convStore'[c].bookId = convStore[c].bookId
         /\ convStore'[c].participants = convStore[c].participants) =>
            /\ Len(convStore'[c].messages) >= Len(convStore[c].messages)
            /\ \A j \in DOMAIN convStore[c].messages :
                  /\ j \in DOMAIN convStore'[c].messages
                  /\ convStore'[c].messages[j].id = convStore[c].messages[j].id
                  /\ convStore'[c].messages[j].senderId =
                       convStore[c].messages[j].senderId
                  /\ convStore'[c].messages[j].text =
                       convStore[c].messages[j].text
      ]_vars

\* The order of two ids as strings of digits: Date.now() first, then the
\* index createTestConversations appends (a prefix comes first)
IdBefore(a, b) ==
    \/ a[1] < b[1]
    \/ a[1] = b[1] /\ Len(a) < Len(b)
    \/ a[1] = b[1] /\ Len(a) = 2 /\ Len(b) = 2 /\ a[2] < b[2]

\* C17: the items displayConversations shows to the user of a page are the
\* conversations of the object's list in which the user is a participant,
\* each once, the conversation with the later last message first and, of
\* two with the same last timestamp, the one with the greater id not first
ConversationListFilteredAndSorted ==
    \A i \in Pages :
        (ms[i].alive /\ ms[i].currentUser # NoUser) =>
            LET convs == ms[i].conversations
                shown == DisplayConversations(convs, ms[i].currentUser)
                mine == {k \in DOMAIN convs :
                            HasParticipant(convs[k], ms[i].currentUser)}
            IN  /\ Len(shown) = Cardinality(mine)
                /\ \A k \in mine :
                      \E j \in DOMAIN shown :
                          shown[j].conversationId = convs[k].id
                /\ \A j \in DOMAIN shown : j + 1 \in DOMAIN shown =>
                      \/ shown[j].time > shown[j + 1].time
                      \/ /\ shown[j].time = shown[j + 1].time
                         /\ ~IdBefore(shown[j + 1].conversationId,
                                      shown[j].conversationId)

\* C18: right after the user opens conversation k of the sidebar, the item
\* of that conversation shows no unread indicator
NoIndicatorAfterOpening ==
    [][\A i \in Pages : \A k \in DOMAIN ms[i].conversations :
        SelectConversation(i, k) =>
            ~DisplayConversations(ms'[i].conversations,
                                  ms[i].currentUser)[k].unread
      ]_vars

\* C21: whatever a MessagingSystem object does, every conversation of the
\* persisted store is in the store afterwards (same id, book and
\* participants) and holds at least the messages it held
NoStoredConversationRemoved ==
    [][\A i \in Pages :
        (\/ \E t \in Inputs : SendMessage(i, t)
         \/ \E k \in DOMAIN ms[i].conversations : SelectConversation(i, k)
         \/ CreateTestConversations(i)) =>
            \A c \in DOMAIN convStore :
                \E d \in DOMAIN convStore' :
                    /\ convStore'[d].id = convStore[c].id
                    /\ convStore'[d].bookId = convStore[c].bookId
                    /\ convStore'[d].participants = convStore[c].participants
                    /\ Len(convStore'[d].messages) >= Len(convStore[c].messages)
      ]_vars

\* C22: with no current user, the message-seller button, sendMessage,
\* createNewConversation and createTestConversations leave the persisted
\* conversations as they are and raise no error
NoSessionNoError ==
    [][/\ \A i \in Pages :
            (/\ ms[i].currentUser = NoUser
             /\ \/ \E t \in Inputs : SendMessage(i, t)
                \/ \E o \in Sellers : \E b \in Books :
                      CreateNewConversation(i, o, b, "hi")
                \/ CreateTestConversations(i)) =>
                UNCHANGED <<convStore, errors>>
       /\ (bm.currentUser = NoUser /\ \E s \in Sellers : MessageSellerButton(s))
            => UNCHANGED <<convStore, errors>>
      ]_vars

\* C28: a user who is not a participant of a conversation can neither mark
\* its messages read nor append to it: opening it and sending in it leave
\* its messages as they are
NonParticipantChangesNothing ==
    [][\A k \in DOMAIN ms[1].conversations :
        (/\ ms[1].currentUser # NoUser
         /\ ~HasParticipant(ms[1].conversations[k], ms[1].currentUser)
         /\ \/ SelectConversation(1, k)
            \/ /\ ms[1].activeConversationId = ms[1].conversations[k].id
               /\ \E t \in Inputs : SendMessage(1, t))
        => /\ k \in DOMAIN ms'[1].conversations
           /\ ms'[1].conversations[k].messages =
                 ms[1].conversations[k].messages
      ]_vars

\* C29: no two stored conversations have the same id, and no two messages
\* of one stored conversation have the same id
IdsUnique ==
    /\ \A j, k \in DOMAIN convStore :
          convStore[j].id = convStore[k].id => j = k
    /\ \A c \in DOMAIN convStore :
          \A j, k \in DOMAIN convStore[c].messages :
              convStore[c].messages[j].id = convStore[c].messages[k].id
                  => j = k

----------------------------------------------------------------------------
(* Properties of the notification engine *)

\* The unread notifications of a list that user u owns
OwnedUnread(list, u) ==
    {k \in DOMAIN list : list[k].owner = u /\ ~list[k].read}

\* C5: getUnreadCount() is the number of unread notifications owned by the
\* object's current user
UnreadCountCorrect ==
    \A i \in Objs :
        ns[i].alive =>
            UnreadCount(ns[i].notifications) =
                Cardinality(OwnedUnread(ns[i].notifications, ns[i].currentUser))

\* The part of C5 about markAllAsRead: right after it the count is 0
MarkAllAsReadGivesZero ==
    [][\A i \in Objs :
        MarkAllAsRead(i) => UnreadCount(ns'[i].notifications) = 0]_vars

\* C6: the list of a NotificationSystem holds only notifications that were
\* added for its own user
NotificationsScopedPerUser ==
    \A i \in Objs :
        (ns[i].alive /\ ns[i].currentUser # NoUser) =>
            \A k \in DOMAIN ns[i].notifications :
                ns[i].notifications[k].owner = ns[i].currentUser

\* C9: with nobody logged in, a tick of the polling timer adds no
\* notification, shows no toast, writes nothing and raises no error
NoOpAfterLogout ==
    [][\A i \in Objs :
        (currentUser = NoUser /\ PollingTick(i)) =>
            UNCHANGED <<notifStore, ns, dom, toasts, errors>>]_vars

\* C10: with nobody logged in, addNotification returns false and leaves the
\* list, the persisted list, the badge and the toasts as they were
AddWithoutUserChangesNothing ==
    [][\A i \in Objs : \A kind \in Kinds : \A rnd \in 1..MaxRand :
        (currentUser = NoUser
           /\ AddNotification(i, kind, SimulatedLink(kind), rnd)) =>
            /\ lastReturn' = "false"
            /\ UNCHANGED <<notifStore, ns, dom, toasts>>]_vars

\* C11: a successful addNotification puts one new notification, unread and
\* unseen, at index 0 of the list, leaves the notifications the list held as
\* they were and in their order behind it, persists the resulting list and
\* appends exactly one toast, which is the toast of the new notification
AddCreatesOneAtHead ==
    [][\A i \in Objs : \A kind \in Kinds : \A rnd \in 1..MaxRand :
        (AddNotification(i, kind, SimulatedLink(kind), rnd)
           /\ lastReturn' = "true") =>
            LET old == ns[i].notifications
                new == ns'[i].notifications
            IN  /\ Len(new) = Len(old) + 1
                /\ new[1].type = kind
                /\ ~new[1].read
                /\ ~new[1].seen
                /\ Tail(new) = old
                /\ notifStore' = new
                /\ Len(toasts') = Len(toasts) + 1
                /\ SubSeq(toasts', 1, Len(toasts)) = toasts
                /\ toasts'[Len(toasts')].nid = new[1].id
                /\ toasts'[Len(toasts')].attached
      ]_vars

\* C11 witness: the call returned true; the new notification is unread and
\* unseen at the head of the persisted list, in front of an older one that
\* is still read and seen, and the newest toast is the new notification's
AddedInFrontOfReadOne ==
    /\ ns[1].alive
    /\ lastReturn = "true"
    /\ Len(ns[1].notifications) >= 2
    /\ ~ns[1].notifications[1].read
    /\ ~ns[1].notifications[1].seen
    /\ ns[1].notifications[2].read
    /\ ns[1].notifications[2].seen
    /\ notifStore = ns[1].notifications
    /\ toasts # <<>>
    /\ toasts[Len(toasts)].nid = ns[1].notifications[1].id

SeenIsNotRead ==
    [][\A i \in Objs :
        (~dom.open /\ ToggleNotificationDropdown(i)) =>
            LET old == ns[i].notifications
                new == ns'[i].notifications
            IN  /\ dom'.open
                /\ DOMAIN new = DOMAIN old
                /\ \A k \in DOMAIN old :
                      /\ new[k].seen
                      /\ [new[k] EXCEPT !.seen = FALSE] =
                           [old[k] EXCEPT !.seen = FALSE]
                /\ UnreadCount(new) = UnreadCount(old)
                /\ ns'[i].unreadCount = ns[i].unreadCount
                /\ old # <<>> => notifStore' = new
      ]_vars

\* C13 witness: the dropdown is open over two unread notifications and a
\* read one, all seen, and the unread count is 2
OpenedWithUnreadAndRead ==
    /\ ns[1].alive
    /\ dom.open
    /\ Len(ns[1].notifications) = 3
    /\ \A k \in DOMAIN ns[1].notifications : ns[1].notifications[k].seen
    /\ UnreadCount(ns[1].notifications) = 2
    /\ ns[1].unreadCount = 2
    /\ dom.badge = [display |-> "flex", text |-> "2"]

\* The ids markAsRead is called with: those addNotification can give, and
\* one that no notification has
NotificationIds ==
    {<<c, r>> : c \in 0..MaxClock, r \in 1..MaxRand} \cup {UnknownId}

AlreadyRead(list, id) ==
    FindNotification(list, id) = 0 \/ list[FindNotification(list, id)].read

\* C14: after markAsRead(id) the notification with this id is read or there
\* is none, and in every such state markAsRead(id) leaves the list, the
\* persisted list and the badge as they are and raises no error; after
\* markAllAsRead every notification is read, and in every such state
\* markAllAsRead leaves the list, the persisted list and the badge as they
\* are
MarkReadIdempotent ==
    [][/\ \A i \in Objs : \A id \in NotificationIds :
            MarkAsRead(i, id) =>
                /\ AlreadyRead(ns'[i].notifications, id)
                /\ AlreadyRead(ns[i].notifications, id) =>
                      /\ UNCHANGED <<ns, notifStore, errors>>
                      /\ dom'.badge = dom.badge
       /\ \A i \in Objs :
            MarkAllAsRead(i) =>
                /\ UnreadCount(ns'[i].notifications) = 0
                /\ UnreadCount(ns[i].notifications) = 0 =>
                      /\ UNCHANGED <<ns, notifStore, errors>>
                      /\ dom'.badge = dom.badge
      ]_vars

\* C14 witness: of two notifications one is read and one is not, the badge
\* shows 1: markAsRead has acted on the read one, and can be applied again
ReadOneOfTwo ==
    /\ ns[1].alive
    /\ Len(ns[1].notifications) = 2
    /\ \E j, k \in DOMAIN ns[1].notifications :
          /\ ns[1].notifications[j].read
          /\ ~ns[1].notifications[k].read
          /\ ns[1].notifications[j].id # ns[1].notifications[k].id
    /\ notifStore = ns[1].notifications
    /\ dom.badge = [display |-> "flex", text |-> "1"]

\* C19: the badge of the page is hidden exactly when its NotificationSystem
\* has no unread notification; otherwise it is displayed and shows the
\* count, for a count of 1 to 9, and "9+" for a greater one
BadgeShowsUnreadCount ==
    ns[1].alive =>
        LET n == Cardinality({k \in DOMAIN ns[1].notifications :
                                 ~ns[1].notifications[k].read})
        IN  /\ n = 0 <=> dom.badge.display = "none"
            /\ n > 0 => dom.badge.display = "flex"
            /\ \A c \in 1..9 : n = c => dom.badge.text = ToString(c)
            /\ n > 9 => dom.badge.text = "9+"

\* C19 witness: ten notifications are unread and the badge shows "9+"
BadgeCapped ==
    /\ ns[1].alive
    /\ Len(ns[1].notifications) = 10
    /\ \A k \in DOMAIN ns[1].notifications : ~ns[1].notifications[k].read
    /\ dom.badge = [display |-> "flex", text |-> "9+"]

\* C20: whichever NotificationSystem object acts, every notification of the
\* persisted list is in the persisted list afterwards, and is read there if
\* it was read
NoNotificationLost ==
    [][\A k \in DOMAIN notifStore :
        \E j \in DOMAIN notifStore' :
            /\ notifStore'[j].id = notifStore[k].id
            /\ notifStore[k].read => notifStore'[j].read
      ]_vars

\* What the dropdown shows of a list of notifications: ids and read marks
Shown(list) == [k \in DOMAIN list |-> <<list[k].id, list[k].read>>]

\* C24: when the dropdown opens, its rendered list is the first five
\* notifications of the persisted list
RenderedOnOpen ==
    [][\A i \in Objs :
        (~dom.open /\ ToggleNotificationDropdown(i)) =>
            Shown(dom'.list) =
                Shown(SubSeq(notifStore', 1,
                             IF Len(notifStore') < DropdownSize
                             THEN Len(notifStore') ELSE DropdownSize))
      ]_vars

\* C26: a tick of the polling timer either changes nothing or adds exactly
\* one notification, of one of the five kinds, the way addNotification adds
\* it (unread at the head of the list, the list persisted, one toast, the
\* result true); on an object constructed with no user logged in a tick
\* changes nothing
PollingTickAddsAtMostOne ==
    [][PollingTick(1) =>
        LET old == ns[1].notifications
            new == ns'[1].notifications
        IN  /\ \/ UNCHANGED vars
               \/ /\ Len(new) = Len(old) + 1
                  /\ Tail(new) = old
                  /\ new[1].type \in {"new_listing", "message", "transaction",
                                      "review", "system"}
                  /\ ~new[1].read
                  /\ notifStore' = new
                  /\ Len(toasts') = Len(toasts) + 1
                  /\ toasts'[Len(toasts')].nid = new[1].id
                  /\ lastReturn' = "true"
            /\ ns[1].currentUser = NoUser => UNCHANGED vars
      ]_vars

\* C26 witness: with a user logged in, a tick has added a review
\* notification, which is stored and has its toast
PolledAReview ==
    /\ ns[1].alive
    /\ ns[1].currentUser # NoUser
    /\ Len(ns[1].notifications) = 1
    /\ ns[1].notifications[1].type = "review"
    /\ notifStore = ns[1].notifications
    /\ Len(toasts) = 1
    /\ toasts[1].nid = notifStore[1].id

\* What a click on notification id (kind, link) of object i has to do
ClickEffect(i, id, kind, link) ==
    LET old == ns[i].notifications
        new == ns'[i].notifications
        f == FindNotification(old, id)
    IN  /\ f # 0
        /\ DOMAIN new = DOMAIN old
        /\ new[f].read
        /\ [new[f] EXCEPT !.read = FALSE] = [old[f] EXCEPT !.read = FALSE]
        /\ \A k \in DOMAIN old : k # f => new[k] = old[k]
        /\ notifStore' = new
        /\ dom'.badge.display =
              IF \A k \in DOMAIN new : new[k].read THEN "none" ELSE "flex"
        /\ link # NoLink => dom'.href = link
        /\ (link = NoLink /\ kind = "message") =>
              dom'.href = "messages.html?conversation="
        /\ (link = NoLink /\ kind = "system") =>
              /\ dom'.href = dom.href
              /\ ~dom'.open

\* C25: a click on a toast or on a dropdown entry of notification n marks n
\* (the notification its id finds) read, persists the list and updates the
\* badge, changes no other notification, and then goes to n's link, or
\* without link to the page of n's kind, or for kind system without link
\* nowhere, with the dropdown closed
ClickReadsThenNavigates ==
    [][/\ \A t \in DOMAIN toasts :
            ToastClick(t) =>
                ClickEffect(toasts[t].by, toasts[t].nid, toasts[t].type,
                            toasts[t].link)
       /\ \A k \in DOMAIN dom.list :
            EntryClick(1, k) =>
                ClickEffect(1, dom.list[k].id, dom.list[k].type,
                            dom.list[k].link)
      ]_vars

\* C25 witness: the toast of a system notification without link was
\* clicked: the notification is read, the other one is not, the dropdown is
\* closed and no page was set
SystemToastClicked ==
    /\ Len(ns[1].notifications) = 2
    /\ \E t \in DOMAIN toasts :
          /\ toasts[t].type = "system"
          /\ toasts[t].bodyClicks = 1
          /\ \E k, j \in DOMAIN ns[1].notifications :
                /\ ns[1].notifications[k].id = toasts[t].nid
                /\ ns[1].notifications[k].read
                /\ ~ns[1].notifications[j].read
    /\ notifStore = ns[1].notifications
    /\ ~dom.open
    /\ dom.href = ""

\* C30: at most one polling timer is running on a page
AtMostOnePollingTimer == Cardinality(PollingTimers) <= 1

----------------------------------------------------------------------------
(* Properties of the toasts *)

\* C7: a toast is detached at most once, it is on the page exactly until
\* then, and once the callback of a 300 ms removal timer has run it has been
\* detached exactly once
ToastDetachedExactlyOnce ==
    \A t \in DOMAIN toasts :
        /\ toasts[t].detached <= 1
        /\ toasts[t].attached <=> toasts[t].detached = 0
        /\ toasts[t].ran > 0 => toasts[t].detached = 1

\* C7 witness: a close click and the 5 s timer both fired for a toast, both
\* their removal callbacks have run, and the toast was detached once
ToastRemovedAfterTwoTriggers ==
    \E t \in DOMAIN toasts :
        /\ toasts[t].closeClicks >= 1
        /\ ~toasts[t].auto
        /\ toasts[t].ran >= 2
        /\ toasts[t].detached = 1

\* C23: once the close button has sent a toast leaving, its 5 s timer does
\* not fire any more; once the 5 s timer has sent it leaving, a click on the
\* close button sets no removal timer
LeavingToastGetsNoOtherTrigger ==
    [][\A t \in DOMAIN toasts :
        /\ toasts[t].closeClicks >= 1 => ~ToastAutoHide(t)
        /\ (toasts[t].hiding /\ ~toasts[t].auto) => ~ToastCloseClick(t)
      ]_vars

\* C27: every toast that was created is detached from the page in the end,
\* whether the user acts on it or not, and a detached toast is never
\* attached again
ToastEventuallyRemoved ==
    /\ \A t \in 1..MaxToasts :
          (t \in DOMAIN toasts) ~>
              (t \in DOMAIN toasts /\ ~toasts[t].attached)
    /\ [][\A t \in DOMAIN toasts :
            ~toasts[t].attached =>
                (t \in DOMAIN toasts' /\ ~toasts'[t].attached)]_vars

\* C27 witness: a toast nobody clicked is detached, by the removal its 5 s
\* timer set
ToastRemovedByTimersAlone ==
    \E t \in DOMAIN toasts :
        /\ toasts[t].closeClicks = 0
        /\ toasts[t].bodyClicks = 0
        /\ ~toasts[t].auto
        /\ ~toasts[t].attached
        /\ toasts[t].detached = 1

\* C8: no removal callback raises an error
NoRemovalError == "removeChild" \notin errors

====
